---------------------------- MODULE Spec2Model ----------------------------
(***************************************************************************)
(* The in-memory key cache of auth0-go (src/key_cacher.go): a map from key *)
(* identifier to (addedAt, JSONWebKey), configured by maxAge and maxSize,  *)
(* with the two operations Get and Add.                                    *)
(*                                                                         *)
(* Time is a natural number of clock units.  Every call of time.Now()      *)
(* returns a reading that is not smaller than the previous one; two        *)
(* readings may be equal (the clock has a finite resolution).              *)
(***************************************************************************)
EXTENDS Integers, Sequences, FiniteSets, TLC

\* ------------------------------------------------------------------ bounds
\* Largest clock reading of a run.
MaxTime == 2
\* Largest number of candidates in a downloaded key set.
MaxKeys == 2
\* Largest number of calls the goroutines of a concurrent run start.
MaxCalls == 3

\* ------------------------------------------------------- program constants
\* MaxAgeNoCheck = time.Duration(-1)
MaxAgeNoCheck == -1
\* MaxSizeNoCheck = -1
MaxSizeNoCheck == -1

ErrNone == "nil"
ErrNoKeyFound == "no Keys has been found"
ErrKeyExpired == "key exists but is expired"

\* ------------------------------------------------------------ value spaces
\* Key identifiers.  "" is the zero value of a Go string, which an unset
\* string variable holds; the callers of this model never use it as a "kid".
ZeroKeyID == ""
KeyIDs == {"a", "b"}

\* The Key field of a jose.JSONWebKey: nil, or some key material.
NilKey == "nil"

\* jose.JSONWebKey, reduced to the two fields the cache reads.
JSONWebKey(id, material) == [KeyID |-> id, Key |-> material]

\* The candidates a downloaded key set is made of: a key with material, a
\* key of the same identifier that carries only the identifier (as the keys
\* of the tests do), and a key of another identifier.
Candidates == {JSONWebKey("a", "k1"), JSONWebKey("a", NilKey), JSONWebKey("b", "k1")}

\* The zero value of jose.JSONWebKey (var addingKey jose.JSONWebKey).
ZeroJSONWebKey == JSONWebKey(ZeroKeyID, NilKey)

\* keyCacherEntry
keyCacherEntry(t, key) == [addedAt |-> t, JSONWebKey |-> key]

\* The key sets a caller may hand to Add: every slice of at most MaxKeys
\* candidates, in every order, no candidate twice (two candidates may still
\* share their identifier).
KeySets ==
    {s \in UNION {[1..n -> Candidates] : n \in 0..MaxKeys} :
        \A i \in DOMAIN s : \A j \in DOMAIN s : i # j => s[i] # s[j]}

\* The configurations the constructors are called with.
MaxAges == {MaxAgeNoCheck, 0, 1}
MaxSizes == {MaxSizeNoCheck, 0, 1}

\* A *jose.JSONWebKey result: <<>> is the nil pointer, <<k>> points to k.
NilPtr == <<>>
PtrTo(k) == <<k>>

VARIABLES
    entries,    \* mkc.entries: a function from the cached identifiers to keyCacherEntry
    maxAge,     \* mkc.maxAge
    maxSize,    \* mkc.maxSize
    clock,      \* the latest reading of time.Now()
    last,       \* the latest call: its operation, arguments, results and clock readings,
                \* and whether the map held its identifier when it began
    pc,         \* per goroutine: the statement of Get/Add it executes next
    frame,      \* per goroutine: the arguments and local variables of its call
    ret,        \* per goroutine: the call it completed last and what it returned
    calls,      \* the number of calls started by the goroutines
    fatal       \* the runtime has thrown "concurrent map read and map write"

vars == <<entries, maxAge, maxSize, clock, last, pc, frame, ret, calls, fatal>>

\* The variables of the goroutines.
goroutineVars == <<pc, frame, ret, calls, fatal>>

\* ------------------------------------------------------------- map helpers
\* delete(m, id)
MapDelete(m, id) == [x \in (DOMAIN m) \ {id} |-> m[x]]

\* m[id] = v, were it to keep the entry an identifier already has.
MapPutIfAbsent(m, id, v) == [x \in (DOMAIN m) \cup {id} |-> IF x \in DOMAIN m THEN m[x] ELSE v]

\* m[id] = v
MapPut(m, id, v) == [x \in (DOMAIN m) \cup {id} |-> IF x = id THEN v ELSE m[x]]

\* m[id] of a Go map: the zero value when id is absent (addedAt is the zero
\* time.Time, which is before every clock reading).
ZeroTime == -1000
MapGet(m, id) == IF id \in DOMAIN m THEN m[id] ELSE keyCacherEntry(ZeroTime, ZeroJSONWebKey)

EmptyMap == [x \in {} |-> keyCacherEntry(0, ZeroJSONWebKey)]

\* --------------------------------------------------------------- time.Time
\* After, were it to hold of equal times too.
AfterOrEqual(t, u) == t >= u

\* t.After(u)
After(t, u) == t > u

\* t.Before(u)
Before(t, u) == t < u

\* The non-decreasing sequences of n clock readings taken from time `from` on.
Readings(from, n) ==
    {ts \in [1..n -> from..MaxTime] : \A i \in 1..n : \A j \in 1..n : i <= j => ts[i] <= ts[j]}

\* ------------------------------------------------------------ keyIsExpired
\* keyIsExpired, were it to leave the expired entry in the map.
keyIsExpiredKeepingEntry(m, age, keyID, now) ==
    [expired |-> After(now, MapGet(m, keyID).addedAt + age), entries |-> m]

\* keyIsExpired(keyID) with time.Now() = now: the verdict and the map it leaves.
keyIsExpired(m, age, keyID, now) ==
    IF After(now, MapGet(m, keyID).addedAt + age)
    THEN [expired |-> TRUE, entries |-> MapDelete(m, keyID)]
    ELSE [expired |-> FALSE, entries |-> m]

\* --------------------------------------------------------------------- Get
\* Whether Get(keyID) reads the clock.
GetReadsClock(m, age, keyID) == keyID \in DOMAIN m /\ age # MaxAgeNoCheck

\* Get, were it to check the expiry before the presence of the entry.
GetResultExpiryFirst(m, age, keyID, now) ==
    IF age # MaxAgeNoCheck /\ keyIsExpired(m, age, keyID, now).expired
    THEN [key |-> NilPtr, err |-> ErrKeyExpired, entries |-> MapDelete(m, keyID)]
    ELSE IF keyID \in DOMAIN m
         THEN [key |-> PtrTo(m[keyID].JSONWebKey), err |-> ErrNone, entries |-> m]
         ELSE [key |-> NilPtr, err |-> ErrNoKeyFound, entries |-> m]

\* Get, were a hit to set the addedAt of the entry to the time of the read.
GetResultRefreshing(m, age, keyID, now) ==
    IF keyID \in DOMAIN m
    THEN IF age = MaxAgeNoCheck \/ ~keyIsExpired(m, age, keyID, now).expired
         THEN [key |-> PtrTo(m[keyID].JSONWebKey), err |-> ErrNone,
               entries |-> MapPut(m, keyID, keyCacherEntry(now, m[keyID].JSONWebKey))]
         ELSE [key |-> NilPtr, err |-> ErrKeyExpired, entries |-> MapDelete(m, keyID)]
    ELSE [key |-> NilPtr, err |-> ErrNoKeyFound, entries |-> m]

\* Get, were it to check the expiry whatever mkc.maxAge is.
GetResultAlwaysExpiring(m, age, keyID, now) ==
    IF keyID \in DOMAIN m
    THEN IF ~keyIsExpired(m, age, keyID, now).expired
         THEN [key |-> PtrTo(m[keyID].JSONWebKey), err |-> ErrNone, entries |-> m]
         ELSE [key |-> NilPtr, err |-> ErrKeyExpired, entries |-> MapDelete(m, keyID)]
    ELSE [key |-> NilPtr, err |-> ErrNoKeyFound, entries |-> m]

\* Get(keyID) with time.Now() = now: the returned key and error, the map it leaves.
GetResult(m, age, keyID, now) ==
    IF keyID \in DOMAIN m
    THEN LET searchKey == m[keyID]
         IN  IF age = MaxAgeNoCheck
             THEN [key |-> PtrTo(searchKey.JSONWebKey), err |-> ErrNone, entries |-> m]
             ELSE LET x == keyIsExpired(m, age, keyID, now)
                  IN  IF ~x.expired
                      THEN [key |-> PtrTo(searchKey.JSONWebKey), err |-> ErrNone,
                            entries |-> x.entries]
                      ELSE [key |-> NilPtr, err |-> ErrKeyExpired, entries |-> x.entries]
    ELSE [key |-> NilPtr, err |-> ErrNoKeyFound, entries |-> m]

\* ---------------------------------------------------------- handleOverflow
\* The identifiers the scan of handleOverflow can end with, for time.Now() = now.
\* The scan keeps the first entry it meets that is strictly older than all it
\* has seen, starting from `now`; Go iterates a map in an unspecified order.
\* With no entry older than `now` the variable keeps its zero value.
OldestEntryKeyIDs(m, now) ==
    IF \E id \in DOMAIN m : Before(m[id].addedAt, now)
    THEN {id \in DOMAIN m : \A other \in DOMAIN m : ~Before(m[other].addedAt, m[id].addedAt)}
    ELSE {ZeroKeyID}

\* Whether handleOverflow finds the cache overflowed.
Overflowed(m, size) == size < Cardinality(DOMAIN m)

\* handleOverflow(): the maps it can leave.
handleOverflow(m, size, now) ==
    IF Overflowed(m, size)
    THEN {MapDelete(m, id) : id \in OldestEntryKeyIDs(m, now)}
    ELSE {m}

\* --------------------------------------------------------------------- Add
\* Whether the loop of Add stores every candidate.
StoresEveryKey(size) == size = MaxSizeNoCheck

\* The loop of Add, were it to store only the candidates with the requested
\* identifier.
RECURSIVE AddLoopStoringMatches(_, _, _, _, _, _, _)
AddLoopStoringMatches(m, size, keyID, downloadedKeys, ts, i, addingKey) ==
    IF i > Len(downloadedKeys)
    THEN [entries |-> m, addingKey |-> addingKey]
    ELSE LET key == downloadedKeys[i]
             found == IF key.KeyID = keyID THEN key ELSE addingKey
             m2 == IF StoresEveryKey(size) /\ key.KeyID = keyID
                   THEN MapPut(m, key.KeyID, keyCacherEntry(ts[i], key))
                   ELSE m
         IN  AddLoopStoringMatches(m2, size, keyID, downloadedKeys, ts, i + 1, found)

\* The loop of Add, were it to store every candidate whatever mkc.maxSize is.
RECURSIVE AddLoopStoringAlways(_, _, _, _, _, _, _)
AddLoopStoringAlways(m, size, keyID, downloadedKeys, ts, i, addingKey) ==
    IF i > Len(downloadedKeys)
    THEN [entries |-> m, addingKey |-> addingKey]
    ELSE LET key == downloadedKeys[i]
             found == IF key.KeyID = keyID THEN key ELSE addingKey
         IN  AddLoopStoringAlways(MapPut(m, key.KeyID, keyCacherEntry(ts[1], key)),
                                  size, keyID, downloadedKeys, ts, i + 1, found)

\* The loop of Add, were it to store the candidates with the requested
\* identifier whatever mkc.maxSize is.
RECURSIVE AddLoopInsertingTarget(_, _, _, _, _, _, _)
AddLoopInsertingTarget(m, size, keyID, downloadedKeys, ts, i, addingKey) ==
    IF i > Len(downloadedKeys)
    THEN [entries |-> m, addingKey |-> addingKey]
    ELSE LET key == downloadedKeys[i]
             found == IF key.KeyID = keyID THEN key ELSE addingKey
             m2 == IF StoresEveryKey(size) \/ key.KeyID = keyID
                   THEN MapPut(m, key.KeyID, keyCacherEntry(ts[1], key))
                   ELSE m
         IN  AddLoopInsertingTarget(m2, size, keyID, downloadedKeys, ts, i + 1, found)

\* The loop of Add over downloadedKeys[i..]: ts[i] is the reading of time.Now()
\* of iteration i (taken only when the candidate is stored).
RECURSIVE AddLoop(_, _, _, _, _, _, _)
AddLoop(m, size, keyID, downloadedKeys, ts, i, addingKey) ==
    IF i > Len(downloadedKeys)
    THEN [entries |-> m, addingKey |-> addingKey]
    ELSE LET key == downloadedKeys[i]
             found == IF key.KeyID = keyID THEN key ELSE addingKey
             m2 == IF StoresEveryKey(size)
                   THEN MapPut(m, key.KeyID, keyCacherEntry(ts[i], key))
                   ELSE m
         IN  AddLoop(m2, size, keyID, downloadedKeys, ts, i + 1, found)

\* How many times Add reads the clock at most: once per candidate when every
\* candidate is stored, else once for the insertion and once in handleOverflow.
AddReadings(size, downloadedKeys) ==
    IF StoresEveryKey(size) THEN Len(downloadedKeys) ELSE 2

\* Accepted, were it to test the identifier of the key instead of its material.
AcceptedByKeyID(addingKey) == addingKey.KeyID # ZeroKeyID

\* Whether Add accepts the key the loop ended with.
Accepted(addingKey) == addingKey.Key # NilKey

\* Add(keyID, downloadedKeys) with the clock readings ts: the outcomes it can
\* have (the returned key and error, the map it leaves, the readings of the
\* clock it has taken).
AddResults(m, size, keyID, downloadedKeys, ts) ==
    LET l == AddLoop(m, size, keyID, downloadedKeys, ts, 1, ZeroJSONWebKey)
        loopTimes == IF StoresEveryKey(size) THEN ts ELSE <<>>
    IN  IF Accepted(l.addingKey)
        THEN IF size # MaxSizeNoCheck
             THEN LET m2 == MapPut(l.entries, l.addingKey.KeyID,
                                   keyCacherEntry(ts[1], l.addingKey))
                  IN  {[key |-> PtrTo(l.addingKey), err |-> ErrNone, entries |-> m3,
                        times |-> IF Overflowed(m2, size) THEN ts ELSE <<ts[1]>>]
                       : m3 \in handleOverflow(m2, size, ts[2])}
             ELSE {[key |-> PtrTo(l.addingKey), err |-> ErrNone, entries |-> l.entries,
                    times |-> loopTimes]}
        ELSE {[key |-> NilPtr, err |-> ErrNoKeyFound, entries |-> l.entries,
               times |-> loopTimes]}

\* The clock after a call that has taken the readings `times`.
ClockAfter(clk, times) == IF times = <<>> THEN clk ELSE times[Len(times)]

\* ----------------------------------------------------------- state machine
NoCall == [op |-> "none", keyID |-> ZeroKeyID, downloadedKeys |-> <<>>,
           key |-> NilPtr, err |-> ErrNone, times |-> <<>>, held |-> FALSE]

\* The goroutines that share the cache.
Procs == {"g1", "g2"}

\* The frame of a goroutine holds the variables its coming statements read;
\* downloadedKeys and i are kept while the loop of Add runs, and now is the
\* value of a time.Now() that has been evaluated and not yet used.  While
\* the range of handleOverflow runs, pending holds the identifiers it has
\* yet to produce (those in the map when the range began and not removed
\* since) and seen the identifiers it has produced.
IdleFrame == [keyID |-> ZeroKeyID, downloadedKeys |-> <<>>, i |-> 0,
              addingKey |-> ZeroJSONWebKey, searchKey |-> ZeroJSONWebKey,
              now |-> 0, latestAddedTime |-> 0, oldestEntryKeyID |-> ZeroKeyID,
              pending |-> {}, seen |-> {}]

NoReturn == [op |-> "none", keyID |-> ZeroKeyID, key |-> NilPtr, err |-> ErrNone]

\* NewMemoryKeyCacher(maxAge, maxSize); newMemoryPersistentKeyCacher() is
\* NewMemoryKeyCacher(MaxAgeNoCheck, MaxSizeNoCheck).
Init ==
    /\ entries = EmptyMap
    /\ maxAge \in MaxAges
    /\ maxSize \in MaxSizes
    /\ clock = 0
    /\ last = NoCall
    /\ pc = [p \in Procs |-> "idle"]
    /\ frame = [p \in Procs |-> IdleFrame]
    /\ ret = [p \in Procs |-> NoReturn]
    /\ calls = 0
    /\ fatal = FALSE

\* A call of mkc.Get(keyID), from its first statement to its return.
Get ==
    \E keyID \in KeyIDs : \E now \in clock..MaxTime :
        LET r == GetResult(entries, maxAge, keyID, now)
            times == IF GetReadsClock(entries, maxAge, keyID) THEN <<now>> ELSE <<>>
        IN  /\ entries' = r.entries
            /\ clock' = ClockAfter(clock, times)
            /\ last' = [op |-> "Get", keyID |-> keyID, downloadedKeys |-> <<>>,
                        key |-> r.key, err |-> r.err, times |-> times,
                        held |-> keyID \in DOMAIN entries]
            /\ UNCHANGED <<maxAge, maxSize>>
            /\ UNCHANGED goroutineVars

\* A call of mkc.Add(keyID, downloadedKeys), from its first statement to its return.
Add ==
    \E keyID \in KeyIDs : \E downloadedKeys \in KeySets :
        \E ts \in Readings(clock, AddReadings(maxSize, downloadedKeys)) :
            \E r \in AddResults(entries, maxSize, keyID, downloadedKeys, ts) :
                /\ entries' = r.entries
                /\ clock' = ClockAfter(clock, r.times)
                /\ last' = [op |-> "Add", keyID |-> keyID, downloadedKeys |-> downloadedKeys,
                            key |-> r.key, err |-> r.err, times |-> r.times,
                            held |-> keyID \in DOMAIN entries]
                /\ UNCHANGED <<maxAge, maxSize>>
                /\ UNCHANGED goroutineVars

\* The calls of one caller, one after the other.
Next == Get \/ Add

Spec == Init /\ [][Next]_vars

\* ------------------------------------------------- goroutines sharing a cache
\* Get and Add take no lock (memoryKeyCacher has no mutex), so the statements
\* of calls made by different goroutines interleave.  A step below is one
\* read or write of mkc.entries with the local computation that follows it,
\* or one call of time.Now(): a clock reading and the map access of the same
\* statement are two steps, and other goroutines run between them.

\* The key sets the goroutines hand to Add.
ConcKeySets ==
    {<<JSONWebKey("a", "k1")>>, <<JSONWebKey("a", "k2")>>, <<JSONWebKey("b", "k1")>>,
     <<JSONWebKey("a", "k1"), JSONWebKey("b", "k1")>>}

\* Goroutine p returns (key, err) from its call of op.
Return(p, op, key, err) ==
    /\ ret' = [ret EXCEPT ![p] = [op |-> op, keyID |-> frame[p].keyID,
                                  key |-> key, err |-> err]]
    /\ pc' = [pc EXCEPT ![p] = "idle"]
    /\ frame' = [frame EXCEPT ![p] = IdleFrame]

\* Goroutine p returns (key, err) from its call of op, with delete(mkc.entries,
\* id) as its last statement: a range of another goroutine over the map no
\* longer has the removed entry to produce, and an entry stored under id
\* later is a new entry for that range.
ReturnDeleting(p, op, key, err, id) ==
    /\ ret' = [ret EXCEPT ![p] = [op |-> op, keyID |-> frame[p].keyID,
                                  key |-> key, err |-> err]]
    /\ pc' = [pc EXCEPT ![p] = "idle"]
    /\ frame' = [q \in Procs |->
                    IF q = p THEN IdleFrame
                    ELSE [frame[q] EXCEPT !.pending = @ \ {id}, !.seen = @ \ {id}]]

\* Goroutine p goes on with statement l.
Goto(p, l) == pc' = [pc EXCEPT ![p] = l] /\ UNCHANGED ret

\* p calls mkc.Get(keyID).
CallGet(p) ==
    /\ ~fatal /\ pc[p] = "idle" /\ calls < MaxCalls
    /\ \E keyID \in KeyIDs :
           frame' = [frame EXCEPT ![p] = [IdleFrame EXCEPT !.keyID = keyID]]
    /\ calls' = calls + 1
    /\ Goto(p, "get_lookup")
    /\ UNCHANGED <<entries, maxAge, maxSize, clock, last, fatal>>

\* searchKey, ok := mkc.entries[keyID], and the tests of ok and mkc.maxAge.
GetLookup(p) ==
    /\ ~fatal /\ pc[p] = "get_lookup"
    /\ IF frame[p].keyID \in DOMAIN entries
       THEN LET searchKey == entries[frame[p].keyID].JSONWebKey
            IN  IF maxAge = MaxAgeNoCheck
                THEN Return(p, "Get", PtrTo(searchKey), ErrNone)
                ELSE /\ frame' = [frame EXCEPT ![p].searchKey = searchKey]
                     /\ Goto(p, "get_now")
       ELSE Return(p, "Get", NilPtr, ErrNoKeyFound)
    /\ UNCHANGED <<entries, maxAge, maxSize, clock, last, calls, fatal>>

\* keyIsExpired: the call time.Now(), the receiver of After, which is
\* evaluated before the argument of After.
GetNow(p) ==
    /\ ~fatal /\ pc[p] = "get_now"
    /\ \E now \in clock..MaxTime :
           /\ clock' = now
           /\ frame' = [frame EXCEPT ![p].now = now]
    /\ Goto(p, "get_expiry")
    /\ UNCHANGED <<entries, maxAge, maxSize, last, calls, fatal>>

\* keyIsExpired: the read of mkc.entries[keyID].addedAt and the test
\* After(addedAt.Add(mkc.maxAge)) of the clock reading taken before.
GetExpiry(p) ==
    /\ ~fatal /\ pc[p] = "get_expiry"
    /\ IF After(frame[p].now, MapGet(entries, frame[p].keyID).addedAt + maxAge)
       THEN Goto(p, "get_delete") /\ frame' = [frame EXCEPT ![p].now = 0]
       ELSE Return(p, "Get", PtrTo(frame[p].searchKey), ErrNone)
    /\ UNCHANGED <<entries, maxAge, maxSize, clock, last, calls, fatal>>

\* keyIsExpired: delete(mkc.entries, keyID); Get returns ErrKeyExpired.
GetDelete(p) ==
    /\ ~fatal /\ pc[p] = "get_delete"
    /\ entries' = MapDelete(entries, frame[p].keyID)
    /\ ReturnDeleting(p, "Get", NilPtr, ErrKeyExpired, frame[p].keyID)
    /\ UNCHANGED <<maxAge, maxSize, clock, last, calls, fatal>>

\* The key the loop of Add ends with: the last candidate of downloadedKeys[i..]
\* with the requested identifier, else the key it had before.
RECURSIVE LoopAddingKey(_, _, _, _)
LoopAddingKey(keyID, downloadedKeys, i, addingKey) ==
    IF i > Len(downloadedKeys)
    THEN addingKey
    ELSE LoopAddingKey(keyID, downloadedKeys, i + 1,
                       IF downloadedKeys[i].KeyID = keyID THEN downloadedKeys[i]
                       ELSE addingKey)

\* p calls mkc.Add(keyID, downloadedKeys) on a cache that stores every
\* candidate.
CallAddStoringAll(p) ==
    /\ ~fatal /\ pc[p] = "idle" /\ calls < MaxCalls /\ StoresEveryKey(maxSize)
    /\ \E keyID \in KeyIDs : \E downloadedKeys \in ConcKeySets :
           frame' = [frame EXCEPT ![p] = [IdleFrame EXCEPT !.keyID = keyID,
                                              !.downloadedKeys = downloadedKeys, !.i = 1]]
    /\ calls' = calls + 1
    /\ Goto(p, "add_loop")
    /\ UNCHANGED <<entries, maxAge, maxSize, clock, last, fatal>>

\* One iteration of the loop of Add that stores the candidate, up to the
\* call time.Now() of the entry it builds.
AddIteration(p) ==
    /\ ~fatal /\ pc[p] = "add_loop" /\ frame[p].i <= Len(frame[p].downloadedKeys)
    /\ LET key == frame[p].downloadedKeys[frame[p].i]
       IN  \E now \in clock..MaxTime :
               /\ clock' = now
               /\ frame' = [frame EXCEPT ![p].now = now,
                                         ![p].addingKey = IF key.KeyID = frame[p].keyID
                                                          THEN key ELSE @]
    /\ Goto(p, "add_store")
    /\ UNCHANGED <<entries, maxAge, maxSize, last, calls, fatal>>

\* The iteration's mkc.entries[key.KeyID] = keyCacherEntry{...}, with the
\* clock reading taken before.
AddStore(p) ==
    /\ ~fatal /\ pc[p] = "add_store"
    /\ LET key == frame[p].downloadedKeys[frame[p].i]
       IN  entries' = MapPut(entries, key.KeyID, keyCacherEntry(frame[p].now, key))
    /\ frame' = [frame EXCEPT ![p].i = @ + 1, ![p].now = 0]
    /\ Goto(p, "add_loop")
    /\ UNCHANGED <<maxAge, maxSize, clock, last, calls, fatal>>

\* The test of addingKey.Key after the loop that stored every candidate.
AddLoopEnd(p) ==
    /\ ~fatal /\ pc[p] = "add_loop" /\ frame[p].i > Len(frame[p].downloadedKeys)
    /\ IF Accepted(frame[p].addingKey)
       THEN Return(p, "Add", PtrTo(frame[p].addingKey), ErrNone)
       ELSE Return(p, "Add", NilPtr, ErrNoKeyFound)
    /\ UNCHANGED <<entries, maxAge, maxSize, clock, last, calls, fatal>>

\* p calls mkc.Add(keyID, downloadedKeys) on a cache that stores the target
\* only: the loop and the test of addingKey.Key touch local variables only,
\* and run within this step.
CallAdd(p) ==
    /\ ~fatal /\ pc[p] = "idle" /\ calls < MaxCalls /\ ~StoresEveryKey(maxSize)
    /\ \E keyID \in KeyIDs : \E downloadedKeys \in ConcKeySets :
           LET addingKey == LoopAddingKey(keyID, downloadedKeys, 1, ZeroJSONWebKey)
           IN  IF Accepted(addingKey)
               THEN /\ frame' = [frame EXCEPT ![p] =
                                    [IdleFrame EXCEPT !.keyID = keyID,
                                                      !.addingKey = addingKey]]
                    /\ Goto(p, "add_now")
               ELSE /\ ret' = [ret EXCEPT ![p] = [op |-> "Add", keyID |-> keyID,
                                                  key |-> NilPtr, err |-> ErrNoKeyFound]]
                    /\ UNCHANGED <<pc, frame>>
    /\ calls' = calls + 1
    /\ UNCHANGED <<entries, maxAge, maxSize, clock, last, fatal>>

\* The call time.Now() of keyCacherEntry{addedAt: time.Now(), ...}, the
\* entry Add builds for the target.
AddNow(p) ==
    /\ ~fatal /\ pc[p] = "add_now"
    /\ \E now \in clock..MaxTime :
           /\ clock' = now
           /\ frame' = [frame EXCEPT ![p].now = now]
    /\ Goto(p, "add_insert")
    /\ UNCHANGED <<entries, maxAge, maxSize, last, calls, fatal>>

\* mkc.entries[addingKey.KeyID] = keyCacherEntry{...}, with the clock
\* reading taken before.
AddInsert(p) ==
    /\ ~fatal /\ pc[p] = "add_insert"
    /\ entries' = MapPut(entries, frame[p].addingKey.KeyID,
                         keyCacherEntry(frame[p].now, frame[p].addingKey))
    /\ frame' = [frame EXCEPT ![p].now = 0]
    /\ Goto(p, "overflow_check")
    /\ UNCHANGED <<maxAge, maxSize, clock, last, calls, fatal>>

\* handleOverflow: the test mkc.maxSize < len(mkc.entries).
OverflowCheck(p) ==
    /\ ~fatal /\ pc[p] = "overflow_check"
    /\ IF Overflowed(entries, maxSize)
       THEN Goto(p, "overflow_now") /\ UNCHANGED frame
       ELSE Return(p, "Add", PtrTo(frame[p].addingKey), ErrNone)
    /\ UNCHANGED <<entries, maxAge, maxSize, clock, last, calls, fatal>>

\* handleOverflow: var latestAddedTime = time.Now().
OverflowNow(p) ==
    /\ ~fatal /\ pc[p] = "overflow_now"
    /\ \E now \in clock..MaxTime :
           /\ clock' = now
           /\ frame' = [frame EXCEPT ![p].latestAddedTime = now]
    /\ Goto(p, "overflow_range")
    /\ UNCHANGED <<entries, maxAge, maxSize, last, calls, fatal>>

\* handleOverflow: the start of for ... := range mkc.entries.  The range has
\* to produce every entry that is in the map now and is not removed before
\* it is reached.
OverflowRange(p) ==
    /\ ~fatal /\ pc[p] = "overflow_range"
    /\ frame' = [frame EXCEPT ![p].pending = DOMAIN entries, ![p].seen = {}]
    /\ Goto(p, "overflow_scan")
    /\ UNCHANGED <<entries, maxAge, maxSize, clock, last, calls, fatal>>

\* handleOverflow: one iteration of the range.  It produces an entry of the
\* map it has not produced yet, in an unspecified order (an entry created
\* after the range began may be produced or skipped), and keeps it when it
\* is Before the oldest so far.
OverflowScan(p) ==
    /\ ~fatal /\ pc[p] = "overflow_scan"
    /\ \E entryKeyID \in (DOMAIN entries) \ frame[p].seen :
           LET entry == entries[entryKeyID]
               older == Before(entry.addedAt, frame[p].latestAddedTime)
           IN  frame' = [frame EXCEPT
                            ![p].latestAddedTime = IF older THEN entry.addedAt ELSE @,
                            ![p].oldestEntryKeyID = IF older THEN entryKeyID ELSE @,
                            ![p].pending = @ \ {entryKeyID},
                            ![p].seen = @ \cup {entryKeyID}]
    /\ Goto(p, "overflow_scan")
    /\ UNCHANGED <<entries, maxAge, maxSize, clock, last, calls, fatal>>

\* handleOverflow: the range ends, every entry it had to produce having
\* been produced or removed.
OverflowScanEnd(p) ==
    /\ ~fatal /\ pc[p] = "overflow_scan" /\ frame[p].pending = {}
    /\ frame' = [frame EXCEPT ![p].seen = {}, ![p].latestAddedTime = 0]
    /\ Goto(p, "overflow_delete")
    /\ UNCHANGED <<entries, maxAge, maxSize, clock, last, calls, fatal>>

\* handleOverflow: delete(mkc.entries, oldestEntryKeyID); Add returns the key.
OverflowDelete(p) ==
    /\ ~fatal /\ pc[p] = "overflow_delete"
    /\ entries' = MapDelete(entries, frame[p].oldestEntryKeyID)
    /\ ReturnDeleting(p, "Add", PtrTo(frame[p].addingKey), ErrNone,
                      frame[p].oldestEntryKeyID)
    /\ UNCHANGED <<maxAge, maxSize, clock, last, calls, fatal>>

\* The next statement of p writes mkc.entries.
WritesMap(p) == pc[p] \in {"get_delete", "add_store", "add_insert", "overflow_delete"}

\* The next statement of p reads mkc.entries.
ReadsMap(p) ==
    pc[p] \in {"get_lookup", "get_expiry", "overflow_check", "overflow_range", "overflow_scan"}

\* A write of the map by one goroutine overlaps an access by another: a data
\* race.  One outcome is that the Go runtime detects it and throws, which
\* ends the program and all its state; the other outcomes are the
\* interleavings of the steps.
Throw ==
    /\ ~fatal
    /\ \E p \in Procs : \E q \in Procs \ {p} : WritesMap(p) /\ (WritesMap(q) \/ ReadsMap(q))
    /\ fatal' = TRUE
    /\ entries' = EmptyMap
    /\ pc' = [p \in Procs |-> "idle"]
    /\ frame' = [p \in Procs |-> IdleFrame]
    /\ ret' = [p \in Procs |-> NoReturn]
    /\ UNCHANGED <<maxAge, maxSize, clock, last, calls>>

ConcNext ==
    \/ \E p \in Procs :
           \/ CallGet(p) \/ GetLookup(p) \/ GetNow(p) \/ GetExpiry(p) \/ GetDelete(p)
           \/ CallAddStoringAll(p) \/ AddIteration(p) \/ AddStore(p) \/ AddLoopEnd(p)
           \/ CallAdd(p) \/ AddNow(p) \/ AddInsert(p)
           \/ OverflowCheck(p) \/ OverflowNow(p) \/ OverflowRange(p)
           \/ OverflowScan(p) \/ OverflowScanEnd(p) \/ OverflowDelete(p)
    \/ Throw

ConcSpec == Init /\ [][ConcNext]_vars

\* ------------------------------------------------- vocabulary of the claims
\* The configurations by kind.
Bounded == maxSize >= 0
Persistent == maxAge = MaxAgeNoCheck /\ maxSize = MaxSizeNoCheck
Expiring == maxAge # MaxAgeNoCheck

\* The step is a call of Get, resp. Add (a call always rewrites `last`).
GetStep == last'.op = "Get"
AddStep == last'.op = "Add"

\* The candidates of a key set that carry identifier id.
Matches(downloadedKeys, id) ==
    {i \in 1..Len(downloadedKeys) : downloadedKeys[i].KeyID = id}

\* The greatest element of a non-empty set of numbers.
Greatest(S) == CHOOSE x \in S : \A y \in S : y <= x

\* The entries of m have pairwise distinct addedAt.
DistinctTimes(m) ==
    \A x \in DOMAIN m : \A y \in DOMAIN m : x # y => m[x].addedAt # m[y].addedAt

\* The identifiers of the entries of m with the earliest addedAt.
Earliest(m) == {x \in DOMAIN m : \A y \in DOMAIN m : m[x].addedAt <= m[y].addedAt}

\* What a Get(id) issued now or at any later time returns.
LaterGets(id) == {GetResult(entries, maxAge, id, t) : t \in clock..MaxTime}

\* ---------------------------------------------------------------------- C1
\* C1 (as claimed): on a bounded cache, at the return of every successful Add
\* the number of entries is at most maxSize.
C1_EvictionInvariant ==
    (Bounded /\ last.op = "Add" /\ last.err = ErrNone)
        => Cardinality(DOMAIN entries) <= maxSize

\* ---------------------------------------------------------------------- C2
\* Goroutine p is inside its call: it has read or written mkc.entries in the
\* call and its next statement reads or writes mkc.entries again.
InCriticalSection(p) ==
    \/ pc[p] \in {"get_now", "get_expiry", "get_delete", "overflow_check",
                  "overflow_now", "overflow_range", "overflow_scan", "overflow_delete"}
    \/ /\ pc[p] \in {"add_loop", "add_store"}
       /\ 1 < frame[p].i /\ frame[p].i <= Len(frame[p].downloadedKeys)

\* C2 (as claimed): every Get and every Add is one critical section on the
\* map: no goroutine reads or writes the map between two accesses of a call
\* of another goroutine, so no two goroutines are inside their calls at once.
C2_MutualExclusion ==
    \A p \in Procs : \A q \in Procs \ {p} :
        ~(InCriticalSection(p) /\ InCriticalSection(q))

\* ---------------------------------------------------------------------- C3
\* C3 (as claimed): with maxSize = -1 (any maxAge) or with maxAge the no-expiry
\* sentinel, a Get of a present identifier is a hit and deletes nothing.
C3_SentinelsGateExpiry ==
    [][(GetStep /\ (maxSize = MaxSizeNoCheck \/ maxAge = MaxAgeNoCheck)
           /\ last'.keyID \in DOMAIN entries)
        => (last'.err = ErrNone /\ entries' = entries)]_vars

\* ---------------------------------------------------------------------- C4
\* C4: when expiry is checked and the identifier has an entry, Get returns
\* ErrKeyExpired and deletes the entry exactly when now - addedAt > maxAge;
\* otherwise it returns the stored key and keeps every entry.
C4_ExpiryOnRead ==
    [][(GetStep /\ Expiring /\ last'.keyID \in DOMAIN entries)
        => LET id == last'.keyID
               age == last'.times[1] - entries[id].addedAt
           IN  /\ (age > maxAge) <=> (last'.err = ErrKeyExpired)
               /\ (last'.err = ErrKeyExpired) <=> (id \notin DOMAIN entries')
               /\ last'.err = ErrKeyExpired
                    => (last'.key = NilPtr /\ entries' = MapDelete(entries, id))
               /\ last'.err # ErrKeyExpired
                    => /\ last'.err = ErrNone
                       /\ last'.key = PtrTo(entries[id].JSONWebKey)
                       /\ entries' = entries]_vars

\* A Get that hit an entry whose age is exactly maxAge.
C4_Witness ==
    /\ last.op = "Get" /\ last.err = ErrNone /\ Expiring
    /\ last.keyID \in DOMAIN entries
    /\ last.times[1] - entries[last.keyID].addedAt = maxAge

\* ---------------------------------------------------------------------- C5
\* The Get of this step follows a Get of the same identifier that returned
\* ErrKeyExpired, with no call in between.
GetAfterExpiredGet ==
    GetStep /\ last.op = "Get" /\ last.err = ErrKeyExpired /\ last'.keyID = last.keyID

\* C5 (as claimed): with maxAge = D, a Get at age t < D is a hit, a Get at age
\* t >= D returns ErrKeyExpired, and the Get after that returns ErrNoKeyFound.
C5_ExpiryMonotonicity_Claimed ==
    [][/\ (GetStep /\ Expiring /\ maxAge >= 0 /\ last'.keyID \in DOMAIN entries)
            => LET age == last'.times[1] - entries[last'.keyID].addedAt
               IN  /\ age < maxAge => last'.err = ErrNone
                   /\ age >= maxAge => last'.err = ErrKeyExpired
       /\ (GetAfterExpiredGet /\ Expiring /\ maxAge >= 0)
            => last'.err = ErrNoKeyFound]_vars

\* C5 (amended): with maxAge = D, a Get at age t <= D is a hit, a Get at age
\* t > D returns ErrKeyExpired, and the Get after that returns ErrNoKeyFound.
C5_ExpiryMonotonicity ==
    [][/\ (GetStep /\ Expiring /\ maxAge >= 0 /\ last'.keyID \in DOMAIN entries)
            => LET age == last'.times[1] - entries[last'.keyID].addedAt
               IN  /\ age <= maxAge => last'.err = ErrNone
                   /\ age > maxAge => last'.err = ErrKeyExpired
       /\ (GetAfterExpiredGet /\ Expiring /\ maxAge >= 0)
            => last'.err = ErrNoKeyFound]_vars

\* A Get has returned ErrKeyExpired for an entry older than a positive maxAge,
\* and the entry is gone: the next Get of the identifier finds nothing.
C5_Witness ==
    /\ last.op = "Get" /\ last.err = ErrKeyExpired /\ maxAge > 0
    /\ last.keyID \notin DOMAIN entries
    /\ \A r \in LaterGets(last.keyID) : r.err = ErrNoKeyFound

\* ---------------------------------------------------------------------- C6
\* C6: on a persistent cache, when Add(id, S) has returned (with a key or with
\* ErrNoKeyFound), every candidate of S has an entry, the entry of an
\* identifier holds the last candidate of S with that identifier, and Get
\* returns it, now and at any later time.
C6_PersistentIngestion ==
    (Persistent /\ last.op = "Add")
        => \A i \in 1..Len(last.downloadedKeys) :
               LET id == last.downloadedKeys[i].KeyID
                   stored == last.downloadedKeys[Greatest(Matches(last.downloadedKeys, id))]
               IN  /\ id \in DOMAIN entries
                   /\ entries[id].JSONWebKey = stored
                   /\ \A r \in LaterGets(id) : r.err = ErrNone /\ r.key = PtrTo(stored)

\* A persistent cache after an Add that returned ErrNoKeyFound for a key set
\* of two candidates with different identifiers.
C6_Witness ==
    /\ Persistent /\ last.op = "Add" /\ last.err = ErrNoKeyFound
    /\ Len(last.downloadedKeys) = 2
    /\ last.downloadedKeys[1].KeyID # last.downloadedKeys[2].KeyID
    /\ DOMAIN entries = {last.downloadedKeys[1].KeyID, last.downloadedKeys[2].KeyID}

\* ---------------------------------------------------------------------- C7
\* C7 (as claimed): Add(id, S) returns ErrNoKeyFound exactly when S has no
\* candidate with identifier id and non-nil key material; otherwise it
\* returns such a candidate.
C7_AddResult_Claimed ==
    last.op = "Add"
        => LET genuine == {i \in Matches(last.downloadedKeys, last.keyID) :
                               last.downloadedKeys[i].Key # NilKey}
           IN  /\ (last.err = ErrNoKeyFound) <=> (genuine = {})
               /\ last.err = ErrNoKeyFound => last.key = NilPtr
               /\ last.err # ErrNoKeyFound
                    => /\ last.err = ErrNone
                       /\ \E i \in genuine : last.key = PtrTo(last.downloadedKeys[i])

\* C7 (amended): Add(id, S) returns ErrNoKeyFound exactly when S has no
\* candidate with identifier id or the last such candidate of S has nil key
\* material; otherwise it returns that last candidate.
C7_AddResult ==
    last.op = "Add"
        => LET matches == Matches(last.downloadedKeys, last.keyID)
               fails == \/ matches = {}
                        \/ last.downloadedKeys[Greatest(matches)].Key = NilKey
           IN  /\ (last.err = ErrNoKeyFound) <=> fails
               /\ last.err = ErrNoKeyFound => last.key = NilPtr
               /\ last.err # ErrNoKeyFound
                    => /\ last.err = ErrNone
                       /\ last.key = PtrTo(last.downloadedKeys[Greatest(matches)])

\* An Add returned ErrNoKeyFound although an earlier candidate of the key set
\* has the identifier and key material: the last one with the identifier has none.
C7_Witness ==
    /\ last.op = "Add" /\ last.err = ErrNoKeyFound
    /\ Len(last.downloadedKeys) = 2
    /\ last.downloadedKeys[1] = JSONWebKey(last.keyID, "k1")
    /\ last.downloadedKeys[2] = JSONWebKey(last.keyID, NilKey)

\* ---------------------------------------------------------------------- C8
\* C8 (as the tests assert): Add(id, S) returns a nil error and a key with
\* identifier id whenever S has a candidate with identifier id, also when
\* the candidate carries only the identifier.
C8_AddByIdentifier ==
    (last.op = "Add" /\ Matches(last.downloadedKeys, last.keyID) # {})
        => /\ last.err = ErrNone
           /\ last.key # NilPtr
           /\ last.key[1].KeyID = last.keyID

\* ---------------------------------------------------------------------- C9
\* C9 (as claimed): with maxSize = 0, an Add whose identifier matches a
\* candidate with key material returns that key, leaves the map empty, and a
\* following Get of the identifier returns ErrNoKeyFound.
C9_ZeroCapacity ==
    (maxSize = 0 /\ last.op = "Add" /\ last.err = ErrNone)
        => /\ last.key # NilPtr
           /\ last.key[1].KeyID = last.keyID /\ last.key[1].Key # NilKey
           /\ DOMAIN entries = {}
           /\ \A r \in LaterGets(last.keyID) : r.err = ErrNoKeyFound

\* --------------------------------------------------------------------- C10
\* C10 (as claimed): when a successful Add on a bounded cache brings the
\* number of entries to maxSize + 1 and the entries have pairwise distinct
\* addedAt, the Add deletes the entry with the earliest addedAt and no other.
C10_EvictionVictim ==
    [][(AddStep /\ Bounded /\ last'.err = ErrNone)
        => LET inserted == MapPut(entries, last'.keyID,
                                  keyCacherEntry(last'.times[1], last'.key[1]))
           IN  (Cardinality(DOMAIN inserted) = maxSize + 1 /\ DistinctTimes(inserted))
                   => \E victim \in Earliest(inserted) :
                          entries' = MapDelete(inserted, victim)]_vars

\* --------------------------------------------------------------------- C11
\* C11: in every configuration, Get(id) returns ErrNoKeyFound exactly when the
\* map holds no entry for id at the call, returns ErrKeyExpired only when it
\* holds one, and every failing Get returns the nil key with its error.
C11_GetMisses ==
    [][GetStep
        => /\ (last'.err = ErrNoKeyFound) <=> (last'.keyID \notin DOMAIN entries)
           /\ last'.err = ErrKeyExpired => last'.keyID \in DOMAIN entries
           /\ last'.err \in {ErrNone, ErrNoKeyFound, ErrKeyExpired}
           /\ (last'.err # ErrNone) <=> (last'.key = NilPtr)]_vars

\* A Get on an expiring cache returned ErrNoKeyFound and the nil key for an
\* identifier without entry, while the other identifier has one.
C11_Witness ==
    /\ last.op = "Get" /\ last.err = ErrNoKeyFound /\ last.key = NilPtr
    /\ Expiring /\ ~last.held
    /\ last.keyID \notin DOMAIN entries /\ DOMAIN entries # {}

\* --------------------------------------------------------------------- C12
\* C12 (as claimed): on a bounded cache with maxSize >= 1, after a successful
\* Add(id, S) the entry of id is in the map (the Add has not deleted it), and
\* a Get(id) that follows before maxAge has elapsed returns the key the Add
\* returned.
C12_AddThenGet ==
    (Bounded /\ maxSize >= 1 /\ last.op = "Add" /\ last.err = ErrNone)
        => /\ last.keyID \in DOMAIN entries
           /\ \A t \in clock..MaxTime :
                  (maxAge = MaxAgeNoCheck \/ t - last.times[1] <= maxAge)
                      => LET r == GetResult(entries, maxAge, last.keyID, t)
                         IN  r.err = ErrNone /\ r.key = last.key

\* --------------------------------------------------------------------- C13
\* C13: a successful Add(id, S) on a bounded cache writes the entry of id
\* only: no other identifier becomes present, the entries of the other
\* identifiers that remain are unchanged, and on an empty cache with
\* maxSize >= 1 the map it leaves holds exactly the entry of id.
C13_BoundedAddCachesTarget ==
    [][(AddStep /\ Bounded /\ last'.err = ErrNone)
        => /\ DOMAIN entries' \subseteq (DOMAIN entries \cup {last'.keyID})
           /\ \A x \in DOMAIN entries' \ {last'.keyID} : entries'[x] = entries[x]
           /\ (DOMAIN entries = {} /\ maxSize >= 1)
                => /\ DOMAIN entries' = {last'.keyID}
                   /\ entries'[last'.keyID].JSONWebKey = last'.key[1]]_vars

\* A successful Add on a bounded cache whose key set has a candidate of
\* another identifier has left the entry of the requested identifier alone.
C13_Witness ==
    /\ Bounded /\ maxSize >= 1 /\ last.op = "Add" /\ last.err = ErrNone
    /\ \E i \in 1..Len(last.downloadedKeys) : last.downloadedKeys[i].KeyID # last.keyID
    /\ DOMAIN entries = {last.keyID}

\* --------------------------------------------------------------------- C14
\* C14 (as claimed): the run of handleOverflow that ends a successful bounded
\* Add deletes exactly one entry when the map has more than maxSize entries
\* after the insertion, whatever the addedAt of the entries and the clock
\* reading of the scan are, and deletes nothing otherwise.
C14_OverflowStep ==
    [][(AddStep /\ Bounded /\ last'.err = ErrNone)
        => LET inserted == MapPut(entries, last'.keyID,
                                  keyCacherEntry(last'.times[1], last'.key[1]))
               count == Cardinality(DOMAIN inserted)
           IN  /\ count > maxSize
                    => \E victim \in DOMAIN inserted : entries' = MapDelete(inserted, victim)
               /\ count <= maxSize => entries' = inserted]_vars

\* --------------------------------------------------------------------- C15
\* C15: an Add that returns ErrNoKeyFound on a cache whose maxSize is not the
\* -1 sentinel leaves the map as it was: the same identifiers, keys and
\* addedAt, and no entry deleted.
C15_FailedAddNoOp ==
    [][(AddStep /\ maxSize # MaxSizeNoCheck /\ last'.err = ErrNoKeyFound)
        => (entries' = entries /\ last'.times = <<>> /\ last'.key = NilPtr)]_vars

\* An Add has failed on a bounded cache that holds an entry, for a key set
\* with a candidate of the requested identifier (without key material) and a
\* candidate of another identifier.
C15_Witness ==
    /\ maxSize # MaxSizeNoCheck /\ last.op = "Add" /\ last.err = ErrNoKeyFound
    /\ DOMAIN entries # {} /\ Cardinality(DOMAIN entries) <= maxSize
    /\ Len(last.downloadedKeys) = 2
    /\ Matches(last.downloadedKeys, last.keyID) # {}
    /\ \E i \in 1..2 : last.downloadedKeys[i].KeyID \notin DOMAIN entries

\* --------------------------------------------------------------------- C16
\* C16: Get(id) inserts no entry, leaves the key and the addedAt of every
\* entry it keeps as they were (a hit does not refresh the entry), removes no
\* entry of another identifier, and removes the entry of id in exactly the
\* calls that return ErrKeyExpired.
C16_GetFrame ==
    [][GetStep
        => /\ DOMAIN entries' \subseteq DOMAIN entries
           /\ \A x \in DOMAIN entries' : entries'[x] = entries[x]
           /\ (DOMAIN entries \ DOMAIN entries') \subseteq {last'.keyID}
           /\ (last'.keyID \in DOMAIN entries \ DOMAIN entries')
                  <=> (last'.err = ErrKeyExpired)]_vars

\* A Get on an expiring cache with two entries has hit an entry at a time
\* later than its addedAt, and the entry still has that addedAt.
C16_Witness ==
    /\ last.op = "Get" /\ last.err = ErrNone /\ Expiring
    /\ Cardinality(DOMAIN entries) = 2
    /\ entries[last.keyID].addedAt < last.times[1]

\* --------------------------------------------------------------------- C17
\* C17: a successful Add(id, S) on a bounded cache that holds an entry for id
\* and no more than maxSize entries replaces that entry by the returned key
\* with addedAt = now, keeps the identifiers of the map and every other entry
\* (nothing is evicted), and a Get(id) that follows is a hit exactly while
\* the time since this Add is at most maxAge.
C17_ReAddRefreshes ==
    [][(AddStep /\ Bounded /\ last'.err = ErrNone
           /\ last'.keyID \in DOMAIN entries /\ Cardinality(DOMAIN entries) <= maxSize)
        => /\ DOMAIN entries' = DOMAIN entries
           /\ entries'[last'.keyID] = keyCacherEntry(last'.times[1], last'.key[1])
           /\ clock' = last'.times[1]
           /\ \A x \in DOMAIN entries \ {last'.keyID} : entries'[x] = entries[x]
           /\ \A t \in clock'..MaxTime :
                  (GetResult(entries', maxAge, last'.keyID, t).err = ErrNone)
                      <=> (maxAge = MaxAgeNoCheck \/ t - last'.times[1] <= maxAge)]_vars

\* A successful Add on an expiring bounded cache that held an entry for the
\* identifier has read the clock once, at a time after the start (no overflow
\* scan has run), and the one entry of the map carries that reading.
C17_Witness ==
    /\ Bounded /\ Expiring /\ last.op = "Add" /\ last.err = ErrNone /\ last.held
    /\ Len(last.times) = 1 /\ last.times[1] >= 1
    /\ DOMAIN entries = {last.keyID}
    /\ entries[last.keyID].addedAt = last.times[1]

\* --------------------------------------------------------------------- C18
\* C18: on a cache built by newMemoryPersistentKeyCacher no Get and no Add
\* removes an entry, and a Get of an identifier that has an entry, now or at
\* any later time, returns its key and changes nothing.
C18_PersistentNeverForgets ==
    [][Persistent
        => /\ DOMAIN entries \subseteq DOMAIN entries'
           /\ (GetStep /\ last'.keyID \in DOMAIN entries)
                => /\ last'.err = ErrNone
                   /\ last'.key = PtrTo(entries[last'.keyID].JSONWebKey)
                   /\ entries' = entries
           /\ \A id \in DOMAIN entries' : \A r \in LaterGets(id)' :
                  r.err = ErrNone /\ r.entries = entries']_vars

\* A persistent cache with two entries has answered a Get with the key of an
\* entry stored at time 0, after the clock has advanced.
C18_Witness ==
    /\ Persistent /\ last.op = "Get" /\ last.err = ErrNone /\ last.key # NilPtr
    /\ Cardinality(DOMAIN entries) = 2
    /\ entries[last.keyID].addedAt = 0 /\ clock >= 1

\* --------------------------------------------------------------------- C19
\* C19 (as claimed): in every configuration, a Get that returns a nil error
\* returns a key with non-nil key material.
C19_NoEmptyHit ==
    (last.op = "Get" /\ last.err = ErrNone)
        => (last.key # NilPtr /\ last.key[1].Key # NilKey)

\* --------------------------------------------------------------------- C20
\* C20 (as claimed): on a bounded cache, when the two goroutines have both
\* returned from successful Adds of different identifiers and no call is
\* running, the number of entries is at most maxSize.
C20_ConcurrentCapacity ==
    (/\ Bounded /\ ~fatal
     /\ \A p \in Procs : pc[p] = "idle" /\ ret[p].op = "Add" /\ ret[p].err = ErrNone
     /\ ret["g1"].keyID # ret["g2"].keyID)
        => Cardinality(DOMAIN entries) <= maxSize

\* --------------------------------------------------------------------- C21
\* C21 (as claimed): on an expiring cache, under every interleaving, when the
\* expiry check of a Get(id) passes and the Get returns a key, the key is the
\* one of the entry whose addedAt the check has read.
C21_GetOneVersion ==
    [][\A p \in Procs :
          (/\ Expiring /\ pc[p] = "get_expiry" /\ pc'[p] = "idle"
           /\ ret'[p].op = "Get" /\ ret'[p].err = ErrNone)
              => /\ frame[p].keyID \in DOMAIN entries
                 /\ ret'[p].key = PtrTo(entries[frame[p].keyID].JSONWebKey)]_vars

=============================================================================
